---- MODULE Spec2Model ----
(***************************************************************************)
(* Model of net-utils/src/ip_echo_server.rs: the accept loop               *)
(* (run_echo_server) and the per-connection handler (process_connection),  *)
(* with the wire framing at byte level.                                    *)
(***************************************************************************)
EXTENDS Integers, Sequences, FiniteSets, TLC

(* ---------------------------------------------------------------- bounds *)
\* connections offered to the listener in a concurrent workload
MaxConns == 2
\* non-zero entries in one request (both arrays together)
MaxNonZero == 2
\* longest port list a client hands to IpEchoServerMessage::new
MaxListLen == 5

(* ------------------------------------------------------ program constants *)
MAX_PORT_COUNT_PER_MESSAGE == 4
HEADER_LENGTH == 4
REQUEST_TERMINUS_LENGTH == 1

Slots == 1..MAX_PORT_COUNT_PER_MESSAGE

(* ------------------------------------------------------------ wire format *)
\* bincode writes a u16 as two bytes, least significant first.
SerU16(p) == <<p % 256, p \div 256>>

DeU16(lo, hi) == lo + 256 * hi

\* A [u16; 4] is its elements one after the other, no length prefix.
SerPorts(arr) ==
    [k \in 1..(2 * Len(arr)) |->
        IF k % 2 = 1 THEN SerU16(arr[(k + 1) \div 2])[1]
                     ELSE SerU16(arr[k \div 2])[2]]

\* variant: most significant byte first
DePorts_bigendian(bytes, off) ==
    [i \in Slots |-> DeU16(bytes[off + 2 * i], bytes[off + 2 * i - 1])]

DePorts(bytes, off) ==
    [i \in Slots |-> DeU16(bytes[off + 2 * i - 1], bytes[off + 2 * i])]

IpEchoServerMessage_default ==
    [tcp_ports |-> [i \in Slots |-> 0], udp_ports |-> [i \in Slots |-> 0]]

Serialize(m) == SerPorts(m.tcp_ports) \o SerPorts(m.udp_ports)

serialized_size(m) == Len(Serialize(m))

ip_echo_server_request_length ==
    HEADER_LENGTH + serialized_size(IpEchoServerMessage_default)
        + REQUEST_TERMINUS_LENGTH

\* bincode::deserialize of the bytes after the header: fails when the input
\* ends before the record does, ignores bytes after the record.
DeserializeOk(bytes) == Len(bytes) >= serialized_size(IpEchoServerMessage_default)

Deserialize(bytes) ==
    [tcp_ports |-> DePorts(bytes, 0),
     udp_ports |-> DePorts(bytes, 2 * MAX_PORT_COUNT_PER_MESSAGE)]

\* An IpAddr is an enum: a u32 variant index (V4 = 0, V6 = 1), least
\* significant byte first, followed by the octets of the address.
SerIp(ip) ==
    <<(IF ip.family = "V4" THEN 0 ELSE 1), 0, 0, 0>> \o ip.octets

Zeros(n) == [k \in 1..n |-> 0]

LargestIp == [family |-> "V6", octets |-> Zeros(16)]

ip_echo_server_reply_length == HEADER_LENGTH + Len(SerIp(LargestIp))

\* variant: the address is serialized at offset 0, over the header
ReplyBytes_nohdr(ip) ==
    [k \in 1..ip_echo_server_reply_length |->
        IF k <= Len(SerIp(ip)) THEN SerIp(ip)[k] ELSE 0]

\* vec![0u8; reply_length] with the address serialized at HEADER_LENGTH.
ReplyBytes(ip) ==
    [k \in 1..ip_echo_server_reply_length |->
        IF k > HEADER_LENGTH /\ k <= HEADER_LENGTH + Len(SerIp(ip))
        THEN SerIp(ip)[k - HEADER_LENGTH]
        ELSE 0]

HTTP_400 ==
    <<72, 84, 84, 80, 47, 49, 46, 49, 32, 52, 48, 48, 32, 66, 97, 100, 32,
      82, 101, 113, 117, 101, 115, 116, 10,
      67, 111, 110, 116, 101, 110, 116, 45, 108, 101, 110, 103, 116, 104,
      58, 32, 48, 10, 10>>

HDR_ZERO == <<0, 0, 0, 0>>
HDR_GET == <<71, 69, 84, 32>>
HDR_POST == <<80, 79, 83, 84>>

request_header(d) == SubSeq(d, 1, HEADER_LENGTH)

\* First index >= i of a non-zero entry, or one past the end: the loops
\* `for p in &ports { if *p != 0 { .. } }` only act on non-zero entries.
RECURSIVE NextNonZero(_, _)
NextNonZero(arr, i) ==
    IF i > Len(arr) THEN i
    ELSE IF arr[i] # 0 THEN i
    ELSE NextNonZero(arr, i + 1)

(* ----------------------------------------------------------------- inputs *)
\* 0 and two port numbers whose two bytes differ
Ports == {0, 8001, 8002}

NonZeroCount(arr) == Cardinality({i \in DOMAIN arr : arr[i] # 0})

Messages ==
    {m \in [tcp_ports : [Slots -> Ports], udp_ports : [Slots -> Ports]] :
        NonZeroCount(m.tcp_ports) + NonZeroCount(m.udp_ports) <= MaxNonZero}

IpV4a == [family |-> "V4", octets |-> <<203, 0, 113, 7>>]
IpV4b == [family |-> "V4", octets |-> <<198, 51, 100, 9>>]
IpV6a == [family |-> "V6",
          octets |-> <<32, 1, 13, 184, 0, 0, 0, 0, 0, 0, 0, 0, 0, 0, 0, 1>>]

Headers ==
    {HDR_ZERO, HDR_GET, HDR_POST,
     <<103, 101, 116, 32>>,       \* "get "
     <<80, 85, 84, 32>>,          \* "PUT "
     <<0, 0, 0, 1>>}
Terminus == {0, 10}

Frame(hdr, m, term) == hdr \o Serialize(m) \o <<term>>

MsgProbe == [tcp_ports |-> <<8001, 0, 0, 0>>, udp_ports |-> <<0, 8002, 0, 0>>]

\* Every message behind a good header; two messages behind every header and
\* with either terminus byte.
Frames ==
    {Frame(HDR_ZERO, m, 0) : m \in Messages}
        \cup {Frame(h, m, t) : h \in Headers,
                               m \in {IpEchoServerMessage_default, MsgProbe},
                               t \in Terminus}

\* What reaches the server before the peer stops sending, when it is not
\* exactly one frame: a frame and more, or a part of a frame.
Ragged ==
    UNION {{Frame(h, MsgProbe, 0) \o <<7>>}
               \cup {SubSeq(Frame(h, MsgProbe, 0), 1, k) :
                        k \in {0, HEADER_LENGTH, ip_echo_server_request_length - 1}} :
           h \in Headers}

Peer(ip, bytes) == [peer_addr |-> [ip |-> ip, port |-> 50000], arrives |-> bytes]

DetailedPeers ==
    {Peer(IpV4a, a) : a \in Frames \cup Ragged}
        \cup {Peer(IpV6a, Frame(HDR_ZERO, m, 0)) :
                 m \in {IpEchoServerMessage_default, MsgProbe}}

ConcurrentPeers ==
    <<Peer(IpV4a, Frame(HDR_ZERO, MsgProbe, 0)),
      Peer(IpV4a, Frame(HDR_ZERO, MsgProbe, 10)),
      Peer(IpV4a, Frame(HDR_ZERO, IpEchoServerMessage_default, 0)),
      Peer(IpV4b, Frame(HDR_GET, IpEchoServerMessage_default, 0))>>

\* MaxConns connections taken from kinds, handled concurrently.  Handlers
\* share nothing, so of the workloads that differ only in arrival order one
\* is kept.
Concurrent(kinds) ==
    {[i \in 1..MaxConns |-> kinds[f[i]]] :
        f \in {g \in [1..MaxConns -> DOMAIN kinds] :
                  \A i \in 1..(MaxConns - 1) : g[i] <= g[i + 1]}}

\* The port lists clients build requests from: every list of up to
\* MaxListLen ports on one side with a list of alternating ports on the other.
AllLists == UNION {[1..k -> {8001, 8002}] : k \in 0..MaxListLen}

Alternating == {[i \in 1..k |-> IF i % 2 = 1 THEN 8002 ELSE 8001] : k \in 0..MaxListLen}

ClientLists ==
    {[tcp |-> t, udp |-> u] : t \in AllLists, u \in Alternating}
        \cup {[tcp |-> t, udp |-> u] : t \in Alternating, u \in AllLists}

\* The connections the environment offers to the listener, in arrival order:
\* one connection of any kind, or MaxConns concurrent ones.
Workloads == {<<p>> : p \in DetailedPeers} \cup Concurrent(ConcurrentPeers)

\* Workloads for the accept loop: a probing request, an all-zero request,
\* an HTTP request and a peer that sends four bytes and goes silent.
ServerPeers ==
    <<Peer(IpV4a, Frame(HDR_ZERO, MsgProbe, 0)),
      Peer(IpV4a, Frame(HDR_ZERO, IpEchoServerMessage_default, 0)),
      Peer(IpV4b, Frame(HDR_GET, IpEchoServerMessage_default, 0)),
      Peer(IpV6a, HDR_POST)>>

ServerWorkloads == Concurrent(ServerPeers)

(* ------------------------------------------------------------------ state *)
VARIABLES
    net,          \* the connections offered to the listener (environment)
    lpc,          \* run_echo_server: "accept" | "spawn"
    nacc,         \* number of connections accept() has returned
    accept_failed, \* an accept() call has failed ("listener accept failed" logged)
    task,         \* task[c]: the spawned handler of connection c; its
                  \* tcp_stream counts the open outbound probe streams
    client        \* a client building its request with IpEchoServerMessage::new

vars == <<net, lpc, nacc, accept_failed, task, client>>

Conns == 1..Len(net)

NoMsg == IpEchoServerMessage_default

NotSpawned ==
    [pc |-> "none", peer_addr |-> [ip |-> IpV4a, port |-> 0], socket |-> FALSE,
     data |-> <<>>, nread |-> 0, msg |-> NoMsg, timer |-> FALSE,
     udp_socket |-> FALSE, udp_i |-> 0, udp_log |-> <<>>,
     tcp_stream |-> 0, tcp_i |-> 0, tcp_log |-> <<>>,
     udp_bind |-> "none", wr |-> "none",
     written |-> <<>>, result |-> "none", err |-> "none"]

Started ==
    /\ lpc = "accept"
    /\ nacc = 0
    /\ accept_failed = FALSE
    /\ task = [c \in 1..Len(net) |-> NotSpawned]

\* no client of this model is involved: the peers send raw bytes
NoClient == [tcp_ports |-> <<>>, udp_ports |-> <<>>, st |-> "none"]

Init == net \in Workloads /\ Started /\ client = NoClient

InitServer == net \in ServerWorkloads /\ Started /\ client = NoClient

\* a client about to build a request from two port lists; nobody has
\* connected yet
InitClient ==
    /\ net = <<>>
    /\ Started
    /\ client \in {[tcp_ports |-> l.tcp, udp_ports |-> l.udp, st |-> "idle"] :
                      l \in ClientLists}

\* variant: the two lists end up in each other's array
New_swapped(tcp_ports, udp_ports) ==
    [tcp_ports |-> [i \in Slots |-> IF i <= Len(udp_ports) THEN udp_ports[i] ELSE 0],
     udp_ports |-> [i \in Slots |-> IF i <= Len(tcp_ports) THEN tcp_ports[i] ELSE 0]]

\* assert!(tcp_ports.len() <= msg.tcp_ports.len()) and the same for udp
NewAsserts(tcp_ports, udp_ports) ==
    /\ Len(tcp_ports) <= MAX_PORT_COUNT_PER_MESSAGE
    /\ Len(udp_ports) <= MAX_PORT_COUNT_PER_MESSAGE

\* IpEchoServerMessage::new: the default message with the lists copied over
\* its leading slots
New(tcp_ports, udp_ports) ==
    [tcp_ports |-> [i \in Slots |-> IF i <= Len(tcp_ports) THEN tcp_ports[i] ELSE 0],
     udp_ports |-> [i \in Slots |-> IF i <= Len(udp_ports) THEN udp_ports[i] ELSE 0]]

\* The client calls IpEchoServerMessage::new; when the assertions hold it
\* connects and sends the message behind an all-zero header, followed by a
\* terminus byte; when one fails it panics and nothing is sent.
ClientRequest ==
    /\ client.st = "idle"
    /\ IF NewAsserts(client.tcp_ports, client.udp_ports)
       THEN /\ net' = <<Peer(IpV4a, Frame(HDR_ZERO,
                                          New(client.tcp_ports, client.udp_ports), 0))>>
            /\ task' = <<NotSpawned>>
            /\ client' = [client EXCEPT !.st = "sent"]
       ELSE /\ client' = [client EXCEPT !.st = "panicked"]
            /\ UNCHANGED <<net, task>>
    /\ UNCHANGED <<lpc, nacc, accept_failed>>

(* ---------------------------------------------------------- accept loop *)
\* tcp_listener.accept().await returns Ok((socket, peer_addr))
Accept ==
    /\ lpc = "accept"
    /\ nacc < Len(net)
    /\ nacc' = nacc + 1
    /\ lpc' = "spawn"
    /\ UNCHANGED <<net, accept_failed, task, client>>

\* variant: the loop breaks on a failed accept
AcceptFail_exit ==
    /\ lpc = "accept"
    /\ accept_failed' = TRUE
    /\ lpc' = "exited"
    /\ UNCHANGED <<net, nacc, task, client>>

\* tcp_listener.accept().await returns Err: warn! and loop
AcceptFail ==
    /\ lpc = "accept"
    /\ accept_failed' = TRUE
    /\ lpc' = "accept"
    /\ UNCHANGED <<net, nacc, task, client>>

\* spawn(async move { process_connection(socket, peer_addr).await }): the
\* task starts at its first await, the timed read_exact of the request.
Spawn ==
    /\ lpc = "spawn"
    /\ task' = [task EXCEPT ![nacc] =
                   [NotSpawned EXCEPT !.pc = "read",
                                      !.peer_addr = net[nacc].peer_addr,
                                      !.socket = TRUE,
                                      !.data = Zeros(ip_echo_server_request_length),
                                      !.timer = TRUE]]
    /\ lpc' = "accept"
    /\ UNCHANGED <<net, nacc, accept_failed, client>>

(* ---------------------------------------------------- process_connection *)
\* Leaving process_connection: the result goes to the spawned task, and the
\* peer socket, the buffers and any probe socket in scope are dropped.
Return(t, res, e) ==
    [t EXCEPT !.pc = "done", !.result = res, !.err = e, !.timer = FALSE,
              !.socket = FALSE, !.udp_socket = FALSE, !.tcp_stream = 0]

\* What a write_all that does not complete has put on the wire.
PartialWrites(bytes) == {SubSeq(bytes, 1, n) : n \in {0, Len(bytes) - 1}}

\* variant: a port that was already probed is not probed again
EnterTcp_dedup(t, i) ==
    LET cand == {k \in i..MAX_PORT_COUNT_PER_MESSAGE :
                    /\ t.msg.tcp_ports[k] # 0
                    /\ \A e \in DOMAIN t.tcp_log :
                          t.tcp_log[e].port # t.msg.tcp_ports[k]}
        j == IF cand = {} THEN MAX_PORT_COUNT_PER_MESSAGE + 1
             ELSE CHOOSE k \in cand : \A m \in cand : k <= m IN
    IF j > MAX_PORT_COUNT_PER_MESSAGE
    THEN [t EXCEPT !.pc = "respond", !.tcp_i = j]
    ELSE [t EXCEPT !.pc = "tcp_connect", !.tcp_i = j, !.timer = TRUE]

\* The TCP loop from index i on: await the timed connect to the next
\* non-zero port, or fall through to the response.
EnterTcp(t, i) ==
    LET j == NextNonZero(t.msg.tcp_ports, i) IN
    IF j > MAX_PORT_COUNT_PER_MESSAGE
    THEN [t EXCEPT !.pc = "respond", !.tcp_i = j]
    ELSE [t EXCEPT !.pc = "tcp_connect", !.tcp_i = j, !.timer = TRUE]

\* variant: the loop has no filter, a zero entry gets a datagram too
EnterUdp_nofilter(t, i) ==
    IF i > MAX_PORT_COUNT_PER_MESSAGE
    THEN EnterTcp([t EXCEPT !.udp_socket = FALSE, !.udp_i = i], 1)
    ELSE [t EXCEPT !.pc = "udp_send", !.udp_i = i]

\* The UDP loop from index i on; after the last entry the match arm ends,
\* udp_socket goes out of scope and the TCP loop starts.
EnterUdp(t, i) ==
    LET j == NextNonZero(t.msg.udp_ports, i) IN
    IF j > MAX_PORT_COUNT_PER_MESSAGE
    THEN EnterTcp([t EXCEPT !.udp_socket = FALSE, !.udp_i = j], 1)
    ELSE [t EXCEPT !.pc = "udp_send", !.udp_i = j]

\* variant: `read` instead of `read_exact`, returning once the header is in
ReadOk_short(c) ==
    /\ task[c].pc = "read"
    /\ Len(net[c].arrives) >= HEADER_LENGTH
    /\ task' = [task EXCEPT ![c] =
                   [@ EXCEPT !.data =
                                 [k \in 1..ip_echo_server_request_length |->
                                     IF k <= Len(net[c].arrives)
                                     THEN net[c].arrives[k] ELSE 0],
                             !.nread = IF Len(net[c].arrives) < ip_echo_server_request_length
                                       THEN Len(net[c].arrives)
                                       ELSE ip_echo_server_request_length,
                             !.timer = FALSE,
                             !.pc = "header"]]
    /\ UNCHANGED <<net, lpc, nacc, accept_failed, client>>

\* timeout(IO_TIMEOUT, reader.read_exact(&mut data)) completes
ReadOk(c) ==
    /\ task[c].pc = "read"
    /\ Len(net[c].arrives) >= ip_echo_server_request_length
    /\ task' = [task EXCEPT ![c] =
                   [@ EXCEPT !.data = SubSeq(net[c].arrives, 1, ip_echo_server_request_length),
                             !.nread = ip_echo_server_request_length,
                             !.timer = FALSE,
                             !.pc = "header"]]
    /\ UNCHANGED <<net, lpc, nacc, accept_failed, client>>

PartialData(c) ==
    [k \in 1..ip_echo_server_request_length |->
        IF k <= Len(net[c].arrives) THEN net[c].arrives[k] ELSE 0]

\* variant: the listener awaits the handler and returns its error with `?`
ReadErr_propagates(c) ==
    /\ task[c].pc = "read"
    /\ Len(net[c].arrives) < ip_echo_server_request_length
    /\ task' = [task EXCEPT ![c] =
                   Return([@ EXCEPT !.data = PartialData(c),
                                    !.nread = Len(net[c].arrives)], "Err", "Io")]
    /\ lpc' = "exited"
    /\ UNCHANGED <<net, nacc, accept_failed, client>>

\* read_exact fails: the peer closed or reset before the buffer was full
ReadErr(c) ==
    /\ task[c].pc = "read"
    /\ Len(net[c].arrives) < ip_echo_server_request_length
    /\ task' = [task EXCEPT ![c] =
                   Return([@ EXCEPT !.data = PartialData(c),
                                    !.nread = Len(net[c].arrives)], "Err", "Io")]
    /\ UNCHANGED <<net, lpc, nacc, accept_failed, client>>

\* IO_TIMEOUT elapses before the buffer is full
ReadTimeout(c) ==
    /\ task[c].pc = "read"
    /\ task[c].timer
    /\ Len(net[c].arrives) < ip_echo_server_request_length
    /\ task' = [task EXCEPT ![c] =
                   Return([@ EXCEPT !.data = PartialData(c),
                                    !.nread = Len(net[c].arrives)], "Err", "Elapsed")]
    /\ UNCHANGED <<net, lpc, nacc, accept_failed, client>>

\* variant: only "GET " is recognised as misdirected HTTP
CheckHeader_getonly(c) ==
    /\ task[c].pc = "header"
    /\ task' = [task EXCEPT ![c] =
                   IF request_header(@.data) # HDR_ZERO
                   THEN IF request_header(@.data) = HDR_GET
                        THEN [@ EXCEPT !.pc = "http_write", !.timer = TRUE]
                        ELSE Return(@, "Err", "BadHeader")
                   ELSE [@ EXCEPT !.pc = "deserialize"]]
    /\ UNCHANGED <<net, lpc, nacc, accept_failed, client>>

\* variant: the method is compared without regard to letter case
CheckHeader_anycase(c) ==
    /\ task[c].pc = "header"
    /\ task' = [task EXCEPT ![c] =
                   IF request_header(@.data) # HDR_ZERO
                   THEN IF request_header(@.data) \in {HDR_GET, HDR_POST, <<103, 101, 116, 32>>}
                        THEN [@ EXCEPT !.pc = "http_write", !.timer = TRUE]
                        ELSE Return(@, "Err", "BadHeader")
                   ELSE [@ EXCEPT !.pc = "deserialize"]]
    /\ UNCHANGED <<net, lpc, nacc, accept_failed, client>>

\* if request_header != "\0\0\0\0" { if "GET " or "POST" {..} return Err }
CheckHeader(c) ==
    /\ task[c].pc = "header"
    /\ task' = [task EXCEPT ![c] =
                   IF request_header(@.data) # HDR_ZERO
                   THEN IF request_header(@.data) = HDR_GET
                           \/ request_header(@.data) = HDR_POST
                        THEN [@ EXCEPT !.pc = "http_write", !.timer = TRUE]
                        ELSE Return(@, "Err", "BadHeader")
                   ELSE [@ EXCEPT !.pc = "deserialize"]]
    /\ UNCHANGED <<net, lpc, nacc, accept_failed, client>>

\* variant: no `return Ok(())` after the literal, the handler carries on
HttpWriteOk_continues(c) ==
    /\ task[c].pc = "http_write"
    /\ task' = [task EXCEPT ![c] =
                   [@ EXCEPT !.written = @ \o HTTP_400, !.wr = "ok",
                             !.timer = FALSE, !.pc = "deserialize"]]
    /\ UNCHANGED <<net, lpc, nacc, accept_failed, client>>

\* timeout(IO_TIMEOUT, writer.write_all(HTTP 400)) completes; return Ok(())
HttpWriteOk(c) ==
    /\ task[c].pc = "http_write"
    /\ task' = [task EXCEPT ![c] =
                   Return([@ EXCEPT !.written = @ \o HTTP_400, !.wr = "ok"],
                          "Ok", "none")]
    /\ UNCHANGED <<net, lpc, nacc, accept_failed, client>>

HttpWriteErr(c) ==
    /\ task[c].pc = "http_write"
    /\ \E w \in PartialWrites(HTTP_400) :
          task' = [task EXCEPT ![c] =
                      Return([@ EXCEPT !.written = @ \o w, !.wr = "err"],
                             "Err", "Io")]
    /\ UNCHANGED <<net, lpc, nacc, accept_failed, client>>

HttpWriteTimeout(c) ==
    /\ task[c].pc = "http_write"
    /\ task[c].timer
    /\ \E w \in PartialWrites(HTTP_400) :
          task' = [task EXCEPT ![c] =
                      Return([@ EXCEPT !.written = @ \o w, !.wr = "timeout"],
                             "Err", "Elapsed")]
    /\ UNCHANGED <<net, lpc, nacc, accept_failed, client>>

\* variant: the body is taken one byte late, &data[HEADER_LENGTH + 1..]
DeserializeMsg_shifted(c) ==
    /\ task[c].pc = "deserialize"
    /\ LET body == SubSeq(task[c].data, HEADER_LENGTH + 2, Len(task[c].data)) IN
       task' = [task EXCEPT ![c] =
                   IF DeserializeOk(body)
                   THEN [@ EXCEPT !.msg = Deserialize(body), !.pc = "udp_bind"]
                   ELSE Return(@, "Err", "Deserialize")]
    /\ UNCHANGED <<net, lpc, nacc, accept_failed, client>>

\* bincode::deserialize::<IpEchoServerMessage>(&data[HEADER_LENGTH..])
DeserializeMsg(c) ==
    /\ task[c].pc = "deserialize"
    /\ LET body == SubSeq(task[c].data, HEADER_LENGTH + 1, Len(task[c].data)) IN
       task' = [task EXCEPT ![c] =
                   IF DeserializeOk(body)
                   THEN [@ EXCEPT !.msg = Deserialize(body), !.pc = "udp_bind"]
                   ELSE Return(@, "Err", "Deserialize")]
    /\ UNCHANGED <<net, lpc, nacc, accept_failed, client>>

\* UdpSocket::bind("0.0.0.0:0") is Ok(udp_socket)
UdpBindOk(c) ==
    /\ task[c].pc = "udp_bind"
    /\ task' = [task EXCEPT ![c] =
                   EnterUdp([@ EXCEPT !.udp_socket = TRUE, !.udp_bind = "ok"], 1)]
    /\ UNCHANGED <<net, lpc, nacc, accept_failed, client>>

\* variant: a failed bind is propagated with `?`
UdpBindErr_abort(c) ==
    /\ task[c].pc = "udp_bind"
    /\ task' = [task EXCEPT ![c] = Return([@ EXCEPT !.udp_bind = "err"], "Err", "Io")]
    /\ UNCHANGED <<net, lpc, nacc, accept_failed, client>>

\* bind is Err: warn! and go on to the TCP loop
UdpBindErr(c) ==
    /\ task[c].pc = "udp_bind"
    /\ task' = [task EXCEPT ![c] = EnterTcp([@ EXCEPT !.udp_bind = "err"], 1)]
    /\ UNCHANGED <<net, lpc, nacc, accept_failed, client>>

\* variant: a failed send_to is propagated with `?`
UdpSend_failfast(c, ok) ==
    /\ task[c].pc = "udp_send"
    /\ LET sent == [task[c] EXCEPT !.udp_log =
                       Append(@, [ip |-> task[c].peer_addr.ip,
                                  port |-> task[c].msg.udp_ports[task[c].udp_i],
                                  payload |-> <<0>>,
                                  ok |-> ok])] IN
       task' = [task EXCEPT ![c] =
                   IF ok THEN EnterUdp(sent, task[c].udp_i + 1)
                         ELSE Return(sent, "Err", "Io")]
    /\ UNCHANGED <<net, lpc, nacc, accept_failed, client>>

\* udp_socket.send_to(&[0], (peer_addr.ip(), udp_port)): Ok or Err, both
\* only logged
UdpSend(c, ok) ==
    /\ task[c].pc = "udp_send"
    /\ task' = [task EXCEPT ![c] =
                   EnterUdp([@ EXCEPT !.udp_log =
                                 Append(@, [ip |-> task[c].peer_addr.ip,
                                            port |-> task[c].msg.udp_ports[task[c].udp_i],
                                            payload |-> <<0>>,
                                            ok |-> ok])],
                            task[c].udp_i + 1)]
    /\ UNCHANGED <<net, lpc, nacc, accept_failed, client>>

TcpAttempt(t, out) ==
    [t EXCEPT !.tcp_log = Append(@, [ip |-> t.peer_addr.ip,
                                     port |-> t.msg.tcp_ports[t.tcp_i],
                                     out |-> out])]

\* timeout(IO_TIMEOUT, TcpStream::connect((peer_addr.ip(), tcp_port))) is Ok
TcpConnectOk(c) ==
    /\ task[c].pc = "tcp_connect"
    /\ task' = [task EXCEPT ![c] =
                   [TcpAttempt(@, "ok") EXCEPT !.tcp_stream = @ + 1,
                                               !.timer = FALSE,
                                               !.pc = "tcp_shutdown"]]
    /\ UNCHANGED <<net, lpc, nacc, accept_failed, client>>

\* variant: a refused probe is logged and the loop goes on
TcpConnectErr_continues(c) ==
    /\ task[c].pc = "tcp_connect"
    /\ task' = [task EXCEPT ![c] =
                   EnterTcp([TcpAttempt(@, "refused") EXCEPT !.timer = FALSE],
                            task[c].tcp_i + 1)]
    /\ UNCHANGED <<net, lpc, nacc, accept_failed, client>>

TcpConnectErr(c) ==
    /\ task[c].pc = "tcp_connect"
    /\ task' = [task EXCEPT ![c] = Return(TcpAttempt(@, "refused"), "Err", "Io")]
    /\ UNCHANGED <<net, lpc, nacc, accept_failed, client>>

TcpConnectTimeout(c) ==
    /\ task[c].pc = "tcp_connect"
    /\ task[c].timer
    /\ task' = [task EXCEPT ![c] = Return(TcpAttempt(@, "timeout"), "Err", "Elapsed")]
    /\ UNCHANGED <<net, lpc, nacc, accept_failed, client>>

\* variant: the stream is kept alive past its loop iteration
TcpShutdown_keeps(c) ==
    /\ task[c].pc = "tcp_shutdown"
    /\ task' = [task EXCEPT ![c] = EnterTcp(@, task[c].tcp_i + 1)]
    /\ UNCHANGED <<net, lpc, nacc, accept_failed, client>>

\* tcp_stream.shutdown(Both); tcp_stream dropped at the end of the iteration
TcpShutdown(c) ==
    /\ task[c].pc = "tcp_shutdown"
    /\ task' = [task EXCEPT ![c] =
                   EnterTcp([@ EXCEPT !.tcp_stream = @ - 1], task[c].tcp_i + 1)]
    /\ UNCHANGED <<net, lpc, nacc, accept_failed, client>>

\* variant: the reply is built in the request buffer `data`, resized to the
\* reply length, instead of a fresh zeroed vector
RespondOk_reuses_data(c) ==
    /\ task[c].pc = "respond"
    /\ LET ip == SerIp(task[c].peer_addr.ip)
           bytes == [k \in 1..ip_echo_server_reply_length |->
                        IF k <= HEADER_LENGTH THEN 0
                        ELSE IF k <= HEADER_LENGTH + Len(ip) THEN ip[k - HEADER_LENGTH]
                        ELSE IF k <= Len(task[c].data) THEN task[c].data[k]
                        ELSE 0] IN
       task' = [task EXCEPT ![c] =
                   Return([@ EXCEPT !.written = @ \o bytes, !.wr = "ok"],
                          "Ok", "none")]
    /\ UNCHANGED <<net, lpc, nacc, accept_failed, client>>

\* writer.write_all(&bytes).await is Ok: the function returns it
RespondOk(c) ==
    /\ task[c].pc = "respond"
    /\ task' = [task EXCEPT ![c] =
                   Return([@ EXCEPT !.written = @ \o ReplyBytes(task[c].peer_addr.ip),
                                    !.wr = "ok"],
                          "Ok", "none")]
    /\ UNCHANGED <<net, lpc, nacc, accept_failed, client>>

RespondErr(c) ==
    /\ task[c].pc = "respond"
    /\ \E w \in PartialWrites(ReplyBytes(task[c].peer_addr.ip)) :
          task' = [task EXCEPT ![c] =
                      Return([@ EXCEPT !.written = @ \o w, !.wr = "err"],
                             "Err", "Io")]
    /\ UNCHANGED <<net, lpc, nacc, accept_failed, client>>

Next ==
    \/ Accept
    \/ AcceptFail
    \/ Spawn
    \/ \E c \in Conns : ReadOk(c)
    \/ \E c \in Conns : ReadErr(c)
    \/ \E c \in Conns : ReadTimeout(c)
    \/ \E c \in Conns : CheckHeader(c)
    \/ \E c \in Conns : HttpWriteOk(c)
    \/ \E c \in Conns : HttpWriteErr(c)
    \/ \E c \in Conns : HttpWriteTimeout(c)
    \/ \E c \in Conns : DeserializeMsg(c)
    \/ \E c \in Conns : UdpBindOk(c)
    \/ \E c \in Conns : UdpBindErr(c)
    \/ \E c \in Conns : \E ok \in BOOLEAN : UdpSend(c, ok)
    \/ \E c \in Conns : TcpConnectOk(c)
    \/ \E c \in Conns : TcpConnectErr(c)
    \/ \E c \in Conns : TcpConnectTimeout(c)
    \/ \E c \in Conns : TcpShutdown(c)
    \/ \E c \in Conns : RespondOk(c)
    \/ \E c \in Conns : RespondErr(c)

Spec == Init /\ [][Next]_vars

\* A client builds and sends one request, and the server handles it.  The
\* request is a whole frame behind an all-zero header, so the steps of a
\* short read and of the HTTP answer are never enabled and are not listed.
NextClient ==
    \/ ClientRequest
    \/ Accept
    \/ AcceptFail
    \/ Spawn
    \/ \E c \in Conns : ReadOk(c)
    \/ \E c \in Conns : CheckHeader(c)
    \/ \E c \in Conns : DeserializeMsg(c)
    \/ \E c \in Conns : UdpBindOk(c)
    \/ \E c \in Conns : UdpBindErr(c)
    \/ \E c \in Conns : \E ok \in BOOLEAN : UdpSend(c, ok)
    \/ \E c \in Conns : TcpConnectOk(c)
    \/ \E c \in Conns : TcpConnectErr(c)
    \/ \E c \in Conns : TcpConnectTimeout(c)
    \/ \E c \in Conns : TcpShutdown(c)
    \/ \E c \in Conns : RespondOk(c)
    \/ \E c \in Conns : RespondErr(c)

SpecClient == InitClient /\ [][NextClient]_vars

\* The runtime keeps polling the accept loop: a connection waiting in the
\* listener's queue is eventually returned by accept(), and the statement
\* after a returned accept() is eventually run.  Nothing is assumed about
\* the peers or about the progress of the handlers.
FairSpec == InitServer /\ [][Next]_vars /\ WF_vars(Accept) /\ WF_vars(Spawn)

TypeOK ==
    /\ lpc \in {"accept", "spawn"}
    /\ nacc \in 0..Len(net)
    /\ \A c \in Conns : task[c].pc = "none" <=> (c > nacc \/ (c = nacc /\ lpc = "spawn"))

(* ------------------------------------------------------- claim vocabulary *)
Done(c) == task[c].pc = "done"

\* the peer delivered a whole request frame
Complete(c) == Len(net[c].arrives) >= ip_echo_server_request_length

WireHeader(c) == SubSeq(net[c].arrives, 1, HEADER_LENGTH)

\* the 16-bit value the peer put in slot i of the array at byte offset off
WirePort(c, off, i) ==
    net[c].arrives[HEADER_LENGTH + off + 2 * i - 1]
        + 256 * net[c].arrives[HEADER_LENGTH + off + 2 * i]

WireTcp(c) == [i \in Slots |-> WirePort(c, 0, i)]
WireUdp(c) == [i \in Slots |-> WirePort(c, 2 * MAX_PORT_COUNT_PER_MESSAGE, i)]

NonZero(arr) == SelectSeq(arr, LAMBDA p : p # 0)

IsPrefix(a, b) == Len(a) <= Len(b) /\ a = SubSeq(b, 1, Len(a))

ProbedPorts(log) == [i \in 1..Len(log) |-> log[i].port]

TcpFailed(t) == \E i \in DOMAIN t.tcp_log : t.tcp_log[i].out # "ok"

UdpFailed(t) ==
    t.udp_bind = "err" \/ \E i \in DOMAIN t.udp_log : ~t.udp_log[i].ok

\* every non-zero TCP port of the request was connected to, in order
TcpAllOk(c) ==
    /\ ProbedPorts(task[c].tcp_log) = NonZero(WireTcp(c))
    /\ ~TcpFailed(task[c])

(* ------------------------------------------------------------------- C1 *)
\* C1: once a TCP probe connect has failed or timed out, the handler has
\* returned an I/O error and has written nothing to the peer; and whenever a
\* response frame was written (even in part), every non-zero entry of
\* tcp_ports had been connected to successfully.
C1_TcpFailureSendsNoResponse ==
    \A c \in Conns :
        LET t == task[c] IN
        /\ TcpFailed(t) =>
              /\ t.pc = "done"
              /\ t.result = "Err"
              /\ t.err \in {"Io", "Elapsed"}
              /\ t.written = <<>>
              /\ t.wr = "none"
        /\ (t.wr # "none" /\ Complete(c) /\ WireHeader(c) = HDR_ZERO) => TcpAllOk(c)

\* a second probe refused after a first one succeeded
C1_Witness ==
    \E c \in Conns :
        /\ Done(c)
        /\ Len(task[c].tcp_log) = 2
        /\ task[c].tcp_log[1].out = "ok"
        /\ task[c].tcp_log[2].out = "refused"

(* ------------------------------------------------------------------- C2 *)
\* the answers of everything but UDP agree wherever both handlers asked
SameNonUdpEnv(a, b) ==
    /\ net[a] = net[b]
    /\ \A i \in DOMAIN task[a].tcp_log \cap DOMAIN task[b].tcp_log :
          task[a].tcp_log[i].out = task[b].tcp_log[i].out
    /\ \/ task[a].wr = "none"
       \/ task[b].wr = "none"
       \/ /\ task[a].wr = task[b].wr
          /\ Len(task[a].written) = Len(task[b].written)

\* C2: UDP failures never propagate.  A finished handler's error is always a
\* failed TCP probe or a failed write of the response, never a UDP bind or
\* send; when all TCP probes and the response write succeed the result is Ok
\* and the frame is sent whatever happened on UDP; and two handlers given the
\* same request and the same non-UDP answers end with the same result and
\* the same bytes written, whatever their UDP outcomes.
C2_UdpFailuresNeverPropagate ==
    /\ \A c \in Conns :
          LET t == task[c] IN
          (Done(c) /\ Complete(c) /\ WireHeader(c) = HDR_ZERO) =>
              /\ t.result = "Err" => (TcpFailed(t) \/ t.wr = "err")
              /\ (TcpAllOk(c) /\ t.wr = "ok") =>
                    (t.result = "Ok" /\ t.written = ReplyBytes(net[c].peer_addr.ip))
    /\ \A a \in Conns : \A b \in Conns :
          (Done(a) /\ Done(b) /\ Complete(a) /\ SameNonUdpEnv(a, b)) =>
              /\ task[a].result = task[b].result
              /\ task[a].err = task[b].err
              /\ task[a].written = task[b].written

\* the same request twice: one handler with a failed send_to, one whose
\* sends all succeeded, both answered with the same frame
C2_Witness ==
    \E a \in Conns : \E b \in Conns :
        /\ a # b
        /\ net[a] = net[b]
        /\ Done(a) /\ Done(b)
        /\ \E i \in DOMAIN task[a].udp_log : ~task[a].udp_log[i].ok
        /\ task[b].udp_log # <<>> /\ ~UdpFailed(task[b])
        /\ task[a].result = "Ok" /\ task[b].result = "Ok"
        /\ task[a].written = ReplyBytes(net[a].peer_addr.ip)
        /\ task[b].written = task[a].written

(* ------------------------------------------------------------------- C3 *)
IsHttp(c) == Complete(c) /\ WireHeader(c) \in {HDR_GET, HDR_POST}

NoProbe(t) ==
    t.udp_bind = "none" /\ t.udp_log = <<>> /\ t.tcp_log = <<>>

\* C3 as stated: a request starting with "GET " or "POST" always ends with
\* exactly the HTTP 400 literal written, no probe, and the result Ok.
C3_Original ==
    \A c \in Conns :
        (IsHttp(c) /\ Done(c)) =>
            /\ task[c].written = HTTP_400
            /\ NoProbe(task[c])
            /\ task[c].result = "Ok"

\* C3 amended: for a request starting with "GET " or "POST" the handler's
\* only write is the HTTP 400 literal and it never probes or deserializes;
\* when that write completes the peer has exactly the literal and the result
\* is Ok; when it fails or times out the result is the I/O error and the
\* peer has a proper prefix of the literal.
C3_HttpRequestGets400 ==
    \A c \in Conns :
        LET t == task[c] IN
        IsHttp(c) =>
            /\ NoProbe(t)
            /\ t.msg = NoMsg
            /\ t.pc \in {"none", "read", "header", "http_write", "done"}
            /\ IsPrefix(t.written, HTTP_400)
            /\ Done(c) =>
                  /\ t.wr \in {"ok", "err", "timeout"}
                  /\ t.wr = "ok" => (t.written = HTTP_400 /\ t.result = "Ok")
                  /\ t.wr = "err" =>
                        (t.written # HTTP_400 /\ t.result = "Err" /\ t.err = "Io")
                  /\ t.wr = "timeout" =>
                        (t.written # HTTP_400 /\ t.result = "Err" /\ t.err = "Elapsed")

\* a POST request answered with the literal
C3_Witness ==
    \E c \in Conns :
        /\ Complete(c) /\ WireHeader(c) = HDR_POST
        /\ Done(c)
        /\ task[c].written = HTTP_400
        /\ task[c].result = "Ok"

(* ------------------------------------------------------------------- C4 *)
\* C4: a fully delivered request whose header is neither all zero nor
\* "GET " nor "POST" ends with an error, nothing written, nothing probed.
C4_BadHeaderIsHardFailure ==
    \A c \in Conns :
        LET t == task[c] IN
        (Complete(c) /\ WireHeader(c) \notin {HDR_ZERO, HDR_GET, HDR_POST}) =>
            /\ t.pc \in {"none", "read", "header", "done"}
            /\ t.written = <<>>
            /\ t.wr = "none"
            /\ NoProbe(t)
            /\ Done(c) => (t.result = "Err" /\ t.err = "BadHeader")

\* a lower-case "get " request rejected
C4_Witness ==
    \E c \in Conns :
        /\ Complete(c) /\ WireHeader(c) = <<103, 101, 116, 32>>
        /\ Done(c)
        /\ task[c].err = "BadHeader"

BlockingSteps == {"read", "http_write", "tcp_connect", "respond"}

\* C6: every blocking step of a handler (the read of the request, the write
\* of the HTTP 400 reply, each TCP probe connect, the write of the response)
\* runs under IO_TIMEOUT, so that a step the peer never completes is aborted.
C6_EveryBlockingStepTimed ==
    \A c \in Conns : task[c].pc \in BlockingSteps => task[c].timer

(* ------------------------------------------------------------------- C7 *)
\* C7: when fewer than request_length bytes arrive, the handler never gets
\* past the read: no header check, no deserialization, no probe, nothing
\* written, and it ends with an I/O failure (error or elapsed timeout).
C7_ShortReadAborts ==
    \A c \in Conns :
        LET t == task[c] IN
        ~Complete(c) =>
            /\ t.pc \in {"none", "read", "done"}
            /\ t.msg = NoMsg
            /\ NoProbe(t)
            /\ t.written = <<>>
            /\ t.wr = "none"
            /\ Done(c) =>
                  /\ t.result = "Err"
                  /\ t.err \in {"Io", "Elapsed"}
                  /\ t.nread = Len(net[c].arrives)

\* only "GET " arrived and the read timed out: no HTTP 400 either
C7_Witness ==
    \E c \in Conns :
        /\ net[c].arrives = HDR_GET
        /\ Done(c)
        /\ task[c].err = "Elapsed"

(* ------------------------------------------------------------------- C8 *)
\* C8: every UDP datagram and every TCP connect attempt of a connection goes
\* to that connection's peer IP and to a port that is a non-zero entry of
\* the matching array of the request as it was on the wire.
C8_ProbesGoWhereThePeerAsked ==
    \A c \in Conns :
        LET t == task[c] IN
        /\ \A k \in DOMAIN t.udp_log :
              /\ t.udp_log[k].ip = net[c].peer_addr.ip
              /\ t.udp_log[k].port # 0
              /\ \E i \in Slots : t.udp_log[k].port = WireUdp(c)[i]
        /\ \A k \in DOMAIN t.tcp_log :
              /\ t.tcp_log[k].ip = net[c].peer_addr.ip
              /\ t.tcp_log[k].port # 0
              /\ \E i \in Slots : t.tcp_log[k].port = WireTcp(c)[i]

\* one UDP datagram and one TCP connect went out, to different ports, on
\* behalf of an IPv6 peer
C8_Witness ==
    \E c \in Conns :
        /\ net[c].peer_addr.ip = IpV6a
        /\ Len(task[c].udp_log) = 1
        /\ Len(task[c].tcp_log) = 1
        /\ task[c].udp_log[1].port # task[c].tcp_log[1].port

(* ------------------------------------------------------------------- C9 *)
AllPortsZero(c) ==
    \A i \in Slots : WireTcp(c)[i] = 0 /\ WireUdp(c)[i] = 0

\* C9: a correctly framed request whose eight ports are all 0 makes the
\* server send no UDP datagram and attempt no TCP connect, and the only
\* thing it sends is the reply frame (header and peer IP): nothing but the
\* write of that frame can fail.
C9_AllZeroRequestProbesNothing ==
    \A c \in Conns :
        LET t == task[c] IN
        (Complete(c) /\ WireHeader(c) = HDR_ZERO /\ AllPortsZero(c)) =>
            /\ t.udp_log = <<>>
            /\ t.tcp_log = <<>>
            /\ t.pc \notin {"udp_send", "tcp_connect", "tcp_shutdown", "http_write"}
            /\ IsPrefix(t.written, ReplyBytes(net[c].peer_addr.ip))
            /\ Done(c) =>
                  /\ t.wr \in {"ok", "err"}
                  /\ t.wr = "ok" <=> t.result = "Ok"
                  /\ t.wr = "ok" => t.written = ReplyBytes(net[c].peer_addr.ip)

\* an all-zero request answered with the frame, the UDP bind having failed
C9_Witness ==
    \E c \in Conns :
        /\ Complete(c) /\ WireHeader(c) = HDR_ZERO /\ AllPortsZero(c)
        /\ Done(c)
        /\ task[c].udp_bind = "err"
        /\ task[c].result = "Ok"
        /\ task[c].written = ReplyBytes(net[c].peer_addr.ip)

(* ------------------------------------------------------------------ C10 *)
\* C10: the accept loop never leaves its loop, and every connection offered
\* to the listener is eventually accepted and handed to a task of its own,
\* whatever accept errors occurred and whatever the earlier handlers do
\* (they may fail, or never finish).
C10_AcceptLoopNeverStops ==
    /\ [](lpc \in {"accept", "spawn"})
    /\ \A k \in 1..MaxConns :
          [](k <= Len(net) => <>(k <= Len(net) /\ task[k].pc # "none"))

\* after a failed accept, a second connection has its handler while the
\* first handler is still waiting on its response write
C10_Witness ==
    /\ accept_failed
    /\ Len(net) >= 2
    /\ task[1].pc = "respond"
    /\ task[2].pc \notin {"none", "done"}

(* ------------------------------------------------------------------ C11 *)
\* slot i of the array a list of ports is expected to become
Padded(list, i) == IF i <= Len(list) THEN list[i] ELSE 0

\* the handler got past the deserialization of its request
Deserialized(t) == t.pc = "udp_bind" \/ t.udp_bind # "none"

\* C11: a message built by IpEchoServerMessage::new from lists of 0 to 4
\* ports, sent behind an all-zero header and deserialized by the handler,
\* has the supplied ports in the supplied order in its leading slots and 0 in
\* the others; a list of more than MAX_PORT_COUNT_PER_MESSAGE ports fails the
\* constructor's assertion: nothing is sent, nothing is truncated.
C11_RoundTrip ==
    /\ client.st = "panicked" =>
          /\ Len(client.tcp_ports) > MAX_PORT_COUNT_PER_MESSAGE
                \/ Len(client.udp_ports) > MAX_PORT_COUNT_PER_MESSAGE
          /\ net = <<>>
    /\ client.st = "sent" =>
          /\ Len(client.tcp_ports) <= MAX_PORT_COUNT_PER_MESSAGE
          /\ Len(client.udp_ports) <= MAX_PORT_COUNT_PER_MESSAGE
          /\ Len(net) = 1
          /\ Deserialized(task[1]) =>
                \A i \in Slots :
                    /\ task[1].msg.tcp_ports[i] = Padded(client.tcp_ports, i)
                    /\ task[1].msg.udp_ports[i] = Padded(client.udp_ports, i)

\* four TCP ports and three UDP ports made the round trip and were answered
C11_Witness ==
    /\ client.st = "sent"
    /\ Len(client.tcp_ports) = 4
    /\ Len(client.udp_ports) = 3
    /\ Len(net) = 1
    /\ task[1].pc = "done"
    /\ task[1].result = "Ok"
    /\ task[1].msg.tcp_ports = client.tcp_ports

(* ------------------------------------------------------------------ C12 *)
\* position of a step in the order read, validate, deserialize (or the HTTP
\* answer), UDP sends, TCP probes, respond
Rank(pc) ==
    CASE pc = "none" -> 0
      [] pc = "read" -> 1
      [] pc = "header" -> 2
      [] pc \in {"deserialize", "http_write"} -> 3
      [] pc = "udp_bind" -> 4
      [] pc = "udp_send" -> 5
      [] pc \in {"tcp_connect", "tcp_shutdown"} -> 6
      [] pc = "respond" -> 7
      [] pc = "done" -> 8

AllOk(log) == \A e \in DOMAIN log : log[e].out = "ok"

\* the UDP step is over: every requested datagram was attempted, or the bind
\* failed
UdpPhaseOver(c) ==
    /\ task[c].udp_bind # "none"
    /\ task[c].udp_bind = "ok" =>
          Len(task[c].udp_log) = Len(NonZero(WireUdp(c)))

\* a connect is awaited: every non-zero port before it was probed, in array
\* order, with success, and its stream is closed; the UDP step is over
C12_ConnectInOrder(c) ==
    task[c].pc = "tcp_connect" =>
        /\ WireTcp(c)[task[c].tcp_i] # 0
        /\ ProbedPorts(task[c].tcp_log)
              = NonZero(SubSeq(WireTcp(c), 1, task[c].tcp_i - 1))
        /\ AllOk(task[c].tcp_log)
        /\ task[c].tcp_stream = 0
        /\ UdpPhaseOver(c)

C12_StepOrder(c) ==
    /\ Rank(task'[c].pc) >= Rank(task[c].pc)
    /\ task'[c].udp_log # task[c].udp_log =>
          /\ task[c].pc = "udp_send"
          /\ task[c].tcp_log = <<>> /\ task'[c].tcp_log = <<>>
          /\ task[c].written = <<>> /\ task'[c].written = <<>>
    /\ task'[c].tcp_log # task[c].tcp_log =>
          /\ task[c].pc = "tcp_connect"
          /\ Len(task'[c].tcp_log) = Len(task[c].tcp_log) + 1
          /\ IsPrefix(task[c].tcp_log, task'[c].tcp_log)
          /\ IsPrefix(ProbedPorts(task'[c].tcp_log), NonZero(WireTcp(c)))
          /\ AllOk(task[c].tcp_log)
          /\ task[c].written = <<>> /\ task'[c].written = <<>>
    /\ (task'[c].written # task[c].written /\ WireHeader(c) = HDR_ZERO) =>
          /\ task[c].pc = "respond"
          /\ UdpPhaseOver(c)
          /\ ProbedPorts(task[c].tcp_log) = NonZero(WireTcp(c))
          /\ AllOk(task[c].tcp_log)

\* C12: the steps of one connection run in the order read, validate header,
\* deserialize, UDP sends, TCP probes, respond; a TCP connect starts only
\* after the UDP step is over and after every earlier non-zero TCP port, a
\* repeated port included, was probed with success and closed; after the
\* first failed probe the handler is over: no later probe, nothing written.
C12_StrictStepOrder ==
    /\ [](\A c \in Conns :
             /\ C12_ConnectInOrder(c)
             /\ TcpFailed(task[c]) =>
                   /\ Done(c)
                   /\ task[c].written = <<>>
                   /\ ~AllOk(SubSeq(task[c].tcp_log, Len(task[c].tcp_log),
                                    Len(task[c].tcp_log)))
                   /\ AllOk(SubSeq(task[c].tcp_log, 1, Len(task[c].tcp_log) - 1)))
    /\ [][\A c \in Conns : C12_StepOrder(c)]_vars

\* the same port was requested twice and is being probed the second time,
\* after the first probe succeeded
C12_Witness ==
    \E c \in Conns :
        /\ task[c].pc = "tcp_connect"
        /\ Len(task[c].tcp_log) = 1
        /\ task[c].tcp_log[1].port = WireTcp(c)[task[c].tcp_i]
        /\ task[c].tcp_log[1].out = "ok"
        /\ task[c].tcp_i = 2

(* ------------------------------------------------------------------ C13 *)
Running(c) == task[c].pc \notin {"none", "done"}

\* what the handler of connection d ends with follows from the answers its
\* own peer and its own probes got
OwnOutcome(d) ==
    /\ (IsHttp(d) /\ task[d].wr = "ok") =>
          task[d].result = "Ok" /\ task[d].written = HTTP_400
    /\ (Complete(d) /\ WireHeader(d) = HDR_ZERO) =>
          /\ TcpFailed(task[d]) =>
                task[d].result = "Err" /\ task[d].written = <<>>
          /\ task[d].wr = "ok" =>
                /\ task[d].result = "Ok"
                /\ task[d].written = ReplyBytes(net[d].peer_addr.ip)

\* a step of the handler of c touches nothing but task[c]; a step of the
\* accept loop touches no handler that was spawned
C13_StepsAreLocal ==
    /\ \A c \in Conns :
          (task[c].pc # "none" /\ task'[c] # task[c]) =>
              /\ \A d \in Conns \ {c} : task'[d] = task[d]
              /\ lpc' = lpc /\ nacc' = nacc /\ accept_failed' = accept_failed
    /\ (lpc' # lpc \/ nacc' # nacc \/ accept_failed' # accept_failed) =>
          \A d \in Conns : task[d].pc # "none" => task'[d] = task[d]

\* C13: handlers are isolated.  However the handlers are interleaved, a
\* handler that fails, times out or stalls changes nothing of another
\* handler, whose result and written bytes follow from its own connection,
\* and nothing of the accept loop, which is never stopped by a handler's
\* error: the error stays in the spawned task.
C13_HandlersAreIsolated ==
    /\ [](/\ lpc \in {"accept", "spawn"}
          /\ \A d \in Conns : Done(d) => OwnOutcome(d))
    /\ [][C13_StepsAreLocal]_vars

\* the handler of one connection has failed, the handler of a later
\* connection has answered its peer, and the accept loop is back at accept()
C13_Witness ==
    \E c \in Conns : \E d \in Conns \ {c} :
        /\ task[c].result = "Err"
        /\ task[d].result = "Ok"
        /\ task[d].written = ReplyBytes(net[d].peer_addr.ip)
        /\ c < d
        /\ lpc = "accept"

(* ------------------------------------------------------------------ C14 *)
\* C14: when the UDP bind succeeds, one datagram of one zero byte is
\* attempted for each non-zero entry of udp_ports, in array order, to the
\* peer's address, whether or not an earlier send failed, and all of them
\* before the TCP step; when the bind fails no datagram is attempted, and the
\* handler goes on to the TCP probes and the response.
C14_UdpFireAndForget ==
    \A c \in Conns :
        (Complete(c) /\ WireHeader(c) = HDR_ZERO) =>
            /\ Rank(task[c].pc) >= Rank("udp_send") => task[c].udp_bind # "none"
            /\ task[c].udp_bind = "none" => task[c].udp_log = <<>>
            /\ task[c].udp_bind = "ok" =>
                  /\ IsPrefix(ProbedPorts(task[c].udp_log), NonZero(WireUdp(c)))
                  /\ \A e \in DOMAIN task[c].udp_log :
                        /\ task[c].udp_log[e].payload = <<0>>
                        /\ task[c].udp_log[e].ip = net[c].peer_addr.ip
                  /\ task[c].pc = "udp_send" =>
                        Len(task[c].udp_log) < Len(NonZero(WireUdp(c)))
                  /\ Rank(task[c].pc) > Rank("udp_send") =>
                        Len(task[c].udp_log) = Len(NonZero(WireUdp(c)))
            /\ task[c].udp_bind = "err" =>
                  /\ task[c].udp_log = <<>>
                  /\ Rank(task[c].pc) > Rank("udp_send")
                  /\ Done(c) => TcpFailed(task[c]) \/ task[c].wr # "none"
                  /\ task[c].wr # "none" =>
                        ProbedPorts(task[c].tcp_log) = NonZero(WireTcp(c))
                  /\ task[c].wr = "ok" =>
                        /\ task[c].result = "Ok"
                        /\ task[c].written = ReplyBytes(net[c].peer_addr.ip)

\* two datagrams were requested, the first send failed and the second was
\* attempted all the same
C14_Witness ==
    \E c \in Conns :
        /\ task[c].udp_bind = "ok"
        /\ Len(NonZero(WireUdp(c))) = 2
        /\ Len(task[c].udp_log) = 2
        /\ ~task[c].udp_log[1].ok
        /\ task[c].udp_log[2].ok
        /\ task[c].udp_log[1].port # task[c].udp_log[2].port

(* ------------------------------------------------------------------ C15 *)
\* C15: a handler holds at most one open outbound TCP probe stream, and only
\* between a successful connect and the end of that loop iteration; the UDP
\* socket is held only during the UDP step and is gone before the first TCP
\* connect starts; a handler that has ended, with Ok or with any error,
\* holds no UDP socket, no probe stream and no peer connection.
C15_ProbeSocketsAreScoped ==
    \A c \in Conns :
        /\ task[c].tcp_stream \in {0, 1}
        /\ task[c].tcp_stream = 1 => task[c].pc = "tcp_shutdown"
        /\ task[c].udp_socket =>
              /\ task[c].pc = "udp_send"
              /\ task[c].tcp_log = <<>>
        /\ Rank(task[c].pc) >= Rank("tcp_connect") => ~task[c].udp_socket
        /\ Running(c) => task[c].socket
        /\ Done(c) =>
              /\ ~task[c].udp_socket
              /\ task[c].tcp_stream = 0
              /\ ~task[c].socket

\* the second probe stream of a handler is open, the first one was closed,
\* and the UDP socket that was bound is released
C15_Witness ==
    \E c \in Conns :
        /\ task[c].pc = "tcp_shutdown"
        /\ Len(task[c].tcp_log) = 2
        /\ task[c].tcp_stream = 1
        /\ task[c].udp_bind = "ok"
        /\ ~task[c].udp_socket
        /\ task[c].socket

(* ------------------------------------------------------------------ C16 *)
\* The error arm of the deserialization is never taken: the buffer always
\* holds ip_echo_server_request_length bytes, and any serialized_size bytes
\* after the header are the encoding of some message.
DeserializeNeverFails ==
    \A c \in Conns :
        /\ task[c].err # "Deserialize"
        /\ task[c].pc = "deserialize" =>
              DeserializeOk(SubSeq(task[c].data, HEADER_LENGTH + 1, Len(task[c].data)))

(* ------------------------------------------------------------------ C17 *)
\* two whole requests from the same peer that differ in the terminus byte
\* and in nothing else
DifferOnlyInTerminus(c, d) ==
    /\ net[c].peer_addr = net[d].peer_addr
    /\ Len(net[c].arrives) = ip_echo_server_request_length
    /\ Len(net[d].arrives) = ip_echo_server_request_length
    /\ SubSeq(net[c].arrives, 1, ip_echo_server_request_length - REQUEST_TERMINUS_LENGTH)
          = SubSeq(net[d].arrives, 1, ip_echo_server_request_length - REQUEST_TERMINUS_LENGTH)
    /\ net[c].arrives[ip_echo_server_request_length]
          # net[d].arrives[ip_echo_server_request_length]

\* what the environment answered to the steps of a handler
Answers(t) ==
    [bind |-> t.udp_bind,
     udp |-> [e \in DOMAIN t.udp_log |-> t.udp_log[e].ok],
     tcp |-> [e \in DOMAIN t.tcp_log |-> t.tcp_log[e].out],
     wr |-> t.wr,
     nwritten |-> Len(t.written)]

\* C17: the terminus byte is never interpreted.  The port lists a handler
\* deserializes are the sixteen bytes between the header and the terminus
\* byte; and of two requests that differ only in the terminus byte the
\* handlers deserialize the same port lists and, given the same answers from
\* the network, probe the same ports, end with the same result and write the
\* same bytes.
C17_TerminusIsNeverInterpreted ==
    /\ \A c \in Conns :
          (Complete(c) /\ Deserialized(task[c])) =>
              /\ task[c].msg.tcp_ports = WireTcp(c)
              /\ task[c].msg.udp_ports = WireUdp(c)
    /\ \A c \in Conns : \A d \in Conns :
          DifferOnlyInTerminus(c, d) =>
              /\ (Deserialized(task[c]) /\ Deserialized(task[d])) =>
                    task[c].msg = task[d].msg
              /\ (Done(c) /\ Done(d) /\ Answers(task[c]) = Answers(task[d])) =>
                    /\ task[c].udp_log = task[d].udp_log
                    /\ task[c].tcp_log = task[d].tcp_log
                    /\ task[c].result = task[d].result
                    /\ task[c].err = task[d].err
                    /\ task[c].written = task[d].written

\* two probing requests, one ending in 0 and one in a line feed, were both
\* probed and both answered
C17_Witness ==
    \E c \in Conns : \E d \in Conns :
        /\ DifferOnlyInTerminus(c, d)
        /\ net[c].arrives[ip_echo_server_request_length] = 10
        /\ task[c].result = "Ok" /\ task[d].result = "Ok"
        /\ task[c].tcp_log # <<>> /\ task[d].tcp_log # <<>>
        /\ task[c].udp_log # <<>> /\ task[d].udp_log # <<>>
        /\ task[c].written = ReplyBytes(net[c].peer_addr.ip)
        /\ task[d].written = task[c].written

(* ------------------------------------------------------------------ C18 *)
\* the one buffer the handler of c may hand to write_all
WriteBuffer(c) ==
    IF IsHttp(c) THEN HTTP_400 ELSE ReplyBytes(net[c].peer_addr.ip)

\* C18 as stated: what a handler has written is nothing, the HTTP 400
\* literal, or the reply frame.
C18_Original ==
    \A c \in Conns :
        task[c].written \in {<<>>, HTTP_400, ReplyBytes(net[c].peer_addr.ip)}

C18_WriteState(c) ==
    /\ task[c].wr = "none" => task[c].written = <<>>
    /\ task[c].wr # "none" =>
          /\ Done(c)
          /\ Complete(c)
          /\ task[c].nread = ip_echo_server_request_length
          /\ WireHeader(c) \in {HDR_ZERO, HDR_GET, HDR_POST}
    /\ task[c].wr = "ok" =>
          task[c].written = WriteBuffer(c) /\ task[c].result = "Ok"
    /\ task[c].wr \in {"err", "timeout"} =>
          /\ IsPrefix(task[c].written, WriteBuffer(c))
          /\ task[c].written # WriteBuffer(c)
          /\ task[c].result = "Err"

\* a write is the handler's last step, made once, after the whole request
\* was read
C18_WriteStep(c) ==
    (task'[c].written # task[c].written \/ task'[c].wr # task[c].wr) =>
        /\ task[c].wr = "none"
        /\ task[c].written = <<>>
        /\ task[c].nread = ip_echo_server_request_length
        /\ task[c].pc \in {"http_write", "respond"}
        /\ task'[c].pc = "done"

\* C18 amended: a handler calls write_all at most once, as its last step and
\* only after the whole request was read, with the HTTP 400 literal (header
\* "GET " or "POST") or the reply frame (all-zero header), never both.  When
\* the write completes the peer has exactly that buffer; when it fails or
\* times out the peer has a proper prefix of it, possibly empty, and nothing
\* is written after it.
C18_SingleWrite ==
    /\ [](\A c \in Conns : C18_WriteState(c))
    /\ [][\A c \in Conns : C18_WriteStep(c)]_vars

\* the write of a reply frame failed one byte short of the whole frame
C18_Witness ==
    \E c \in Conns :
        /\ Done(c)
        /\ task[c].wr = "err"
        /\ WireHeader(c) = HDR_ZERO
        /\ Len(task[c].written) = ip_echo_server_reply_length - 1
        /\ IsPrefix(task[c].written, ReplyBytes(net[c].peer_addr.ip))

(* ------------------------------------------------------------------ C19 *)
\* the address a client reads out of a reply frame: the variant index, then
\* four or sixteen octets
EchoedIp(bytes) ==
    LET v4 == bytes[HEADER_LENGTH + 1] = 0
        n == IF v4 THEN 4 ELSE 16 IN
    [family |-> IF v4 THEN "V4" ELSE "V6",
     octets |-> SubSeq(bytes, HEADER_LENGTH + 5, HEADER_LENGTH + 4 + n)]

Answered(c) ==
    /\ Done(c)
    /\ task[c].result = "Ok"
    /\ Complete(c)
    /\ WireHeader(c) = HDR_ZERO

\* C19: a success reply is a function of the peer address observed at
\* accept time.  The frame is the one built from that address alone, the
\* address read back from it is that address whatever the request held, all
\* bytes after the address are zero, and two answered requests from the
\* same IP address get identical frames whatever their port lists.
C19_ReplyDependsOnlyOnPeer ==
    /\ \A c \in Conns :
          Answered(c) =>
              /\ task[c].written = ReplyBytes(net[c].peer_addr.ip)
              /\ EchoedIp(task[c].written) = net[c].peer_addr.ip
    /\ \A c \in Conns : \A d \in Conns :
          (Answered(c) /\ Answered(d)
              /\ net[c].peer_addr.ip = net[d].peer_addr.ip) =>
              task[c].written = task[d].written

\* a probing request and an all-zero request from the same address were both
\* answered, with the same frame
C19_Witness ==
    \E c \in Conns : \E d \in Conns :
        /\ Answered(c) /\ Answered(d)
        /\ net[c].peer_addr.ip = net[d].peer_addr.ip
        /\ WireTcp(c) # WireTcp(d)
        /\ WireUdp(c) # WireUdp(d)
        /\ task[c].tcp_log # <<>>
        /\ task[c].written = task[d].written
        /\ Len(task[c].written) = ip_echo_server_reply_length
====
